---- MODULE Spec2Model ----
(***************************************************************************)
(* Model of scripts/find_nbt.py: the recursive NBT tag matcher, the        *)
(* coordinate parser, the player / region / entity context extractors and  *)
(* the scan orchestrator with its command-line entry point.                *)
(*                                                                         *)
(* Python strings are TLA+ strings (\o, Len, SubSeq).  An optional string  *)
(* (a value that may be None) is a sequence of length 0 (None) or 1.       *)
(* A tag of the NBT library is a record                                    *)
(*    [kind, name, val, tags]                                              *)
(* kind is "Compound", "List" or "Scalar"; name is the optional tag name;  *)
(* val is the typed payload of a scalar; tags is the ordered child list of *)
(* a container.                                                            *)
(***************************************************************************)
EXTENDS Integers, Sequences, FiniteSets, TLC

VARIABLES pc, call, ret, args, world, search_criteria, todo,
          master_findings_list, temp_misc_findings_console, report

vars == <<pc, call, ret, args, world, search_criteria, todo,
          master_findings_list, temp_misc_findings_console, report>>

(***************************************************************************)
(* Python values                                                           *)
(***************************************************************************)
None == <<>>
Some(s) == <<s>>
IsNone(o) == o = <<>>
Get(o) == o[1]
\* Python truthiness of an optional string: None and "" are falsy.
Truthy(o) == o # <<>> /\ o[1] # ""

IntVal(n) == [t |-> "int", n |-> n, s |-> ""]
StrVal(s) == [t |-> "str", n |-> 0, s |-> s]
\* a double that is a multiple of 1/8 (exactly representable), in eighths
DblVal(n) == [t |-> "dbl", n |-> n, s |-> ""]
NoVal == [t |-> "none", n |-> 0, s |-> ""]

Scalar(name, val) == [kind |-> "Scalar", name |-> name, val |-> val, tags |-> <<>>]
Compound(name, tags) == [kind |-> "Compound", name |-> name, val |-> NoVal, tags |-> tags]
List(name, tags) == [kind |-> "List", name |-> name, val |-> NoVal, tags |-> tags]
WithName(tag, name) == [tag EXCEPT !.name = name]
IsContainer(tag) == tag.kind \in {"Compound", "List"}

\* non-negative integer division and remainder on possibly negative n
Abs(n) == IF n < 0 THEN -n ELSE n

\* the fraction digits Python's repr prints for k/8, k in 0..7
EighthsFrac(k) ==
  CASE k = 0 -> "0" [] k = 1 -> "125" [] k = 2 -> "25" [] k = 3 -> "375"
    [] k = 4 -> "5" [] k = 5 -> "625" [] k = 6 -> "75" [] OTHER -> "875"

\* str(x) of a Python value: decimal for an int, the text of a string,
\* shortest repr for a double, "None" for the value of a container.
Str(val) ==
  CASE val.t = "int" -> ToString(val.n)
    [] val.t = "str" -> val.s
    [] val.t = "dbl" -> (IF val.n < 0 THEN "-" ELSE "") \o ToString(Abs(val.n) \div 8)
                         \o "." \o EighthsFrac(Abs(val.n) % 8)
    [] OTHER -> "None"

(***************************************************************************)
(* find_nbt_tags_recursive                                                 *)
(***************************************************************************)
Criteria(name, value) == [name |-> name, value |-> value]

\* 'name' in search_criteria and search_criteria.get('name') is not None
HasName(criteria) == ~IsNone(criteria.name)
HasValue(criteria) == ~IsNone(criteria.value)

\* lines 108-111: nbt_tag.name != search_criteria['name'] (None differs from
\* every string)
NameMatches(nbt_tag, criteria) ==
  IF HasName(criteria) THEN nbt_tag.name = criteria.name ELSE TRUE

\* lines 113-118: a container passes (the branch is `pass`), a scalar is
\* compared by its string form
ValueMatches(nbt_tag, criteria) ==
  IF HasValue(criteria)
  THEN IF IsContainer(nbt_tag) THEN TRUE
       ELSE Str(nbt_tag.val) = Get(criteria.value)
  ELSE TRUE

\* line 122: the placeholder is used only when the name is None
TagNameToReport(nbt_tag, current_path) ==
  IF ~IsNone(nbt_tag.name) THEN Get(nbt_tag.name)
  ELSE "item_in_list_at_path_" \o current_path

\* lines 129-130
CompoundChildPath(current_path, child_name) ==
  IF current_path # "" /\ Truthy(child_name)
  THEN current_path \o "." \o Get(child_name)
  ELSE IF Truthy(child_name) THEN Get(child_name) ELSE current_path

\* line 135
ListChildPath(current_path, index) ==
  current_path \o "[" \o ToString(index) \o "]"

\* line 123; node is an auxiliary field, not part of the Python tuple: the
\* position of the matched tag in the searched tree (child indices from the
\* root, 1-based), used only to state properties.
Finding(nbt_tag, current_path, node) ==
  [path |-> current_path,
   name |-> TagNameToReport(nbt_tag, current_path),
   value |-> Str(nbt_tag.val),
   node |-> node]

\* a variant that appends the children's findings first; C4 must reject it
VisitPostOrder(own, children) == children \o own
\* lines 120-137: the tag's own finding is appended before its children's
Visit(own, children) == own \o children

\* lines 128, 134: children are iterated in stored order / index order
ChildOrder(n, i) == i

RECURSIVE Search(_, _, _, _)
Search(nbt_tag, criteria, current_path, node) ==
  LET own == IF NameMatches(nbt_tag, criteria) /\ ValueMatches(nbt_tag, criteria)
             THEN <<Finding(nbt_tag, current_path, node)>>
             ELSE <<>>
      n == Len(nbt_tag.tags)
      NewPath(k) ==
        IF nbt_tag.kind = "Compound"
        THEN CompoundChildPath(current_path, nbt_tag.tags[k].name)
        ELSE ListChildPath(current_path, k - 1)
      RECURSIVE Children(_)
      Children(i) ==
        IF i > n THEN <<>>
        ELSE LET k == ChildOrder(n, i)
             IN Search(nbt_tag.tags[k], criteria, NewPath(k), Append(node, k))
                  \o Children(i + 1)
  IN Visit(own, IF IsContainer(nbt_tag) THEN Children(1) ELSE <<>>)

find_nbt_tags_recursive(nbt_tag, criteria, current_path) ==
  Search(nbt_tag, criteria, current_path, <<>>)

(***************************************************************************)
(* Positions in a tag tree (auxiliary, for stating properties)             *)
(***************************************************************************)
RECURSIVE Addresses(_)
\* every position of the tree: <<>> is the root, Append(a, k) the k-th child
Addresses(tag) ==
  {<<>>} \cup UNION {{<<k>> \o a : a \in Addresses(tag.tags[k])} : k \in 1..Len(tag.tags)}

RECURSIVE NodeAt(_, _)
NodeAt(tag, a) == IF a = <<>> THEN tag ELSE NodeAt(tag.tags[Head(a)], Tail(a))

IsPrefix(a, b) == Len(a) <= Len(b) /\ SubSeq(b, 1, Len(a)) = a

\* a comes strictly before b in depth-first pre-order
PreOrderBefore(a, b) ==
  \/ Len(a) < Len(b) /\ IsPrefix(a, b)
  \/ \E k \in 1..Len(a) :
        /\ k <= Len(b)
        /\ SubSeq(a, 1, k - 1) = SubSeq(b, 1, k - 1)
        /\ a[k] < b[k]

(***************************************************************************)
(* Inputs of the tag matcher                                               *)
(***************************************************************************)
MaxChildren == 2

ChildNames == {"", "id", "a"}
ScalarVals == {IntVal(5), StrVal("x")}

\* The NBT library leaves the name of a list element None, except that of a
\* compound element, which TAG_Compound sets to "" (a compound child carries
\* the name stored in the file).
AsListElement(tag) ==
  IF tag.kind = "Compound" THEN WithName(tag, Some("")) ELSE WithName(tag, None)

Leaves == {Scalar(None, v) : v \in ScalarVals}

InnerTags ==
  Leaves
  \cup {Compound(None, <<>>), List(None, <<>>)}
  \cup {Compound(None, <<WithName(l, Some(n))>>) : l \in Leaves, n \in ChildNames}
  \cup {List(None, <<l>>) : l \in Leaves}

SeqsUpTo(S, n) == UNION {[1..k -> S] : k \in 0..n}

DistinctNames(tags) ==
  \A i, j \in 1..Len(tags) : i # j => tags[i].name # tags[j].name

RootCompounds ==
  {Compound(None, tags) :
     tags \in {f \in SeqsUpTo({WithName(t, Some(n)) : t \in InnerTags, n \in ChildNames},
                              MaxChildren) : DistinctNames(f)}}

RootLists ==
  {List(None, tags) : tags \in SeqsUpTo({AsListElement(t) : t \in InnerTags}, MaxChildren)}

RootNames == {None, Some(""), Some("id")}

SearchTrees ==
  {WithName(t, n) : t \in Leaves \cup RootCompounds \cup RootLists, n \in RootNames}

SearchCriteria ==
  {Criteria(n, v) : n \in {None, Some(""), Some("id")}, v \in {None, Some("5")}}

PathPrefixes == {"root", ""}

(***************************************************************************)
(* Specification of one call of find_nbt_tags_recursive                    *)
(***************************************************************************)
Idle == "-"

InitSearch ==
  /\ pc = "call"
  /\ call \in [nbt_tag : SearchTrees, search_criteria : SearchCriteria,
               current_path : PathPrefixes]
  /\ ret = <<>>
  /\ args = Idle /\ world = Idle /\ search_criteria = Idle /\ todo = Idle
  /\ master_findings_list = Idle /\ temp_misc_findings_console = Idle
  /\ report = Idle

CallFindNbtTagsRecursive ==
  /\ pc = "call"
  /\ ret' = find_nbt_tags_recursive(call.nbt_tag, call.search_criteria, call.current_path)
  /\ pc' = "done"
  /\ UNCHANGED <<call, args, world, search_criteria, todo, master_findings_list,
                 temp_misc_findings_console, report>>

SpecSearch == InitSearch /\ [][CallFindNbtTagsRecursive]_vars

(***************************************************************************)
(* Claims about find_nbt_tags_recursive (checked under SpecSearch)         *)
(***************************************************************************)
SearchDone == pc = "done"

\* number of findings of the result that address position a
TimesReported(found_tags, a) ==
  Cardinality({i \in 1..Len(found_tags) : found_tags[i].node = a})

\* the tag satisfies every active criterion: its own name equals the criteria
\* name, and it is a scalar whose string form equals the criteria value
Satisfies(tag, criteria) ==
  /\ HasName(criteria) => tag.name = criteria.name
  /\ HasValue(criteria) => tag.kind = "Scalar" /\ Str(tag.val) = Get(criteria.value)

\* C1: the search is exhaustive: every node of the tree (root and nodes inside
\* matching containers included) that satisfies all active criteria appears
\* exactly once in the result, and no node failing an active criterion appears.
C1_Exhaustive ==
  SearchDone =>
    \A a \in Addresses(call.nbt_tag) :
      TimesReported(ret, a) =
        IF Satisfies(NodeAt(call.nbt_tag, a), call.search_criteria) THEN 1 ELSE 0

\* C2: with an active value criterion no Compound or List is ever reported:
\* every finding addresses a Scalar whose string form equals the criteria value.
C2_NoContainerValueMatch ==
  (SearchDone /\ HasValue(call.search_criteria)) =>
    \A i \in 1..Len(ret) :
      LET tag == NodeAt(call.nbt_tag, ret[i].node)
      IN tag.kind = "Scalar" /\ Str(tag.val) = Get(call.search_criteria.value)

\* C3: the reported name of every finding is non-empty; a node whose name is
\* absent or empty is reported as item_in_list_at_path_<its path>, a named
\* node under its own name.
C3_ReportedNameNonEmpty ==
  SearchDone =>
    \A i \in 1..Len(ret) :
      LET tag == NodeAt(call.nbt_tag, ret[i].node)
      IN /\ ret[i].name # ""
         /\ IF Truthy(tag.name)
            THEN ret[i].name = Get(tag.name)
            ELSE ret[i].name = "item_in_list_at_path_" \o ret[i].path

\* C4: the result is in depth-first pre-order: a finding of a node precedes
\* the findings of its descendants, and findings of the children of a
\* Compound or List follow the stored order of the children.
C4_PreOrder ==
  SearchDone =>
    \A i, j \in 1..Len(ret) :
      i < j => PreOrderBefore(ret[i].node, ret[j].node)

\* a result holding a node, then a descendant of it, then a later sibling
\* subtree's node
C4_Witness ==
  /\ SearchDone
  /\ \E i, j, k \in 1..Len(ret) :
       /\ i < j /\ j < k
       /\ Len(ret[i].node) = 1 /\ Len(ret[j].node) = 2
       /\ IsPrefix(ret[i].node, ret[j].node)
       /\ Len(ret[k].node) >= 1 /\ ret[k].node[1] > ret[i].node[1]

(***************************************************************************)
(* Python string methods used by the script                                *)
(***************************************************************************)
CharAt(s, i) == SubSeq(s, i, i)

UpperLetters == "ABCDEFGHIJKLMNOPQRSTUVWXYZ"
LowerLetters == "abcdefghijklmnopqrstuvwxyz"

LowerChar(c) ==
  IF \E i \in 1..26 : CharAt(UpperLetters, i) = c
  THEN CharAt(LowerLetters, CHOOSE i \in 1..26 : CharAt(UpperLetters, i) = c)
  ELSE c

RECURSIVE Lower(_)
\* str.lower()
Lower(s) == IF s = "" THEN "" ELSE LowerChar(Head(s)) \o Lower(Tail(s))

RECURSIVE IndexFrom(_, _, _)
\* the first position >= i of the character c in s, 0 if there is none
IndexFrom(s, c, i) ==
  IF i > Len(s) THEN 0
  ELSE IF CharAt(s, i) = c THEN i
  ELSE IndexFrom(s, c, i + 1)

RECURSIVE SplitAt(_, _, _)
SplitAt(s, sep, i) ==
  IF i = 0 THEN <<s>>
  ELSE <<SubSeq(s, 1, i - 1)>>
         \o SplitAt(SubSeq(s, i + 1, Len(s)), sep,
                    IndexFrom(SubSeq(s, i + 1, Len(s)), sep, 1))

\* str.split(sep) for a one-character separator: always at least one part,
\* empty parts are kept
Split(s, sep) == SplitAt(s, sep, IndexFrom(s, sep, 1))

RECURSIVE LStrip(_)
LStrip(s) == IF s # "" /\ Head(s) = " " THEN LStrip(Tail(s)) ELSE s

RECURSIVE RStrip(_)
RStrip(s) ==
  IF s # "" /\ CharAt(s, Len(s)) = " " THEN RStrip(SubSeq(s, 1, Len(s) - 1)) ELSE s

\* a variant that leaves the surrounding spaces in place; C5 must reject it
StripNothing(s) == s
\* str.strip()
Strip(s) == RStrip(LStrip(s))

\* str.startswith(prefix)
StartsWith(s, prefix) == Len(prefix) <= Len(s) /\ SubSeq(s, 1, Len(prefix)) = prefix

(***************************************************************************)
(* parse_coords                                                            *)
(***************************************************************************)
\* lines 78-83: one part of the comma split updates at most one coordinate
AssignCoord(xyz, key, val) ==
  IF key = "X" THEN [xyz EXCEPT ![1] = val]
  ELSE IF key = "Y" THEN [xyz EXCEPT ![2] = val]
  ELSE IF key = "Z" THEN [xyz EXCEPT ![3] = val]
  ELSE xyz

ParseKeyVal(xyz, key_val) ==
  IF Len(key_val) = 2
  THEN AssignCoord(xyz, Strip(key_val[1]), Strip(key_val[2]))
  ELSE xyz

ParsePart(xyz, part) == ParseKeyVal(xyz, Split(part, ":"))

RECURSIVE ParseParts(_, _)
\* lines 77-83: the loop over the parts, in order
ParseParts(xyz, parts) ==
  IF parts = <<>> THEN xyz ELSE ParseParts(ParsePart(xyz, Head(parts)), Tail(parts))

\* lines 73-86; no operation inside the try block raises for a string
parse_coords(coord_str) ==
  IF coord_str # "" /\ Lower(coord_str) \notin {"n/a", "n/a_pos"}
  THEN ParseParts(<<"", "", "">>, Split(coord_str, ","))
  ELSE <<"", "", "">>

(***************************************************************************)
(* Specification of one call of parse_coords                               *)
(***************************************************************************)
CoordKeys == {"X", "Y", "Z"}
CoordValues == {"10", "-5", "1.50"}
\* how a field is written: key:value, with spaces around it or around its
\* parts, without a colon, or with two colons
FieldForms == {"plain", "spaced", "padded", "nocolon", "twocolons"}
WellFormed == {"plain", "spaced", "padded"}

FieldText(f) ==
  CASE f.form = "plain" -> f.key \o ":" \o f.val
    [] f.form = "spaced" -> " " \o f.key \o ":" \o f.val
    [] f.form = "padded" -> " " \o f.key \o " : " \o f.val \o " "
    [] f.form = "nocolon" -> f.key \o f.val
    [] OTHER -> f.key \o ":" \o f.val \o ":" \o f.val

RECURSIVE Join(_)
\* the fields joined by commas
Join(fields) ==
  IF fields = <<>> THEN ""
  ELSE IF Len(fields) = 1 THEN FieldText(fields[1])
  ELSE FieldText(fields[1]) \o "," \o Join(Tail(fields))

CoordFields == [key : CoordKeys, form : FieldForms, val : CoordValues]

\* up to three fields with distinct keys, in any order
CoordFieldSeqs ==
  {fs \in SeqsUpTo(CoordFields, Cardinality(CoordKeys)) :
     \A i, j \in 1..Len(fs) : i # j => fs[i].key # fs[j].key}

Unavailable == {"N/A", "N/A_Pos", "n/a", ""}

\* call.fields records how coord_str was written (auxiliary)
InitCoords ==
  /\ pc = "call"
  /\ \/ \E fs \in CoordFieldSeqs : call = [coord_str |-> Join(fs), fields |-> fs]
     \/ \E s \in Unavailable : call = [coord_str |-> s, fields |-> <<>>]
  /\ ret = <<>>
  /\ args = Idle /\ world = Idle /\ search_criteria = Idle /\ todo = Idle
  /\ master_findings_list = Idle /\ temp_misc_findings_console = Idle
  /\ report = Idle

CallParseCoords ==
  /\ pc = "call"
  /\ ret' = parse_coords(call.coord_str)
  /\ pc' = "done"
  /\ UNCHANGED <<call, args, world, search_criteria, todo, master_findings_list,
                 temp_misc_findings_console, report>>

SpecCoords == InitCoords /\ [][CallParseCoords]_vars

\* the value the field of this key should yield: its value when the field is
\* present in key:value form, the empty string otherwise
ExpectedCoord(fields, key) ==
  IF \E i \in 1..Len(fields) : fields[i].key = key /\ fields[i].form \in WellFormed
  THEN LET i == CHOOSE j \in 1..Len(fields) : fields[j].key = key
       IN fields[i].val
  ELSE ""

\* C5: parse_coords returns a triple of strings: (a, b, c) for X:a,Y:b,Z:c
\* with or without spaces, three empty strings for N/A, N/A_Pos and "", and
\* for malformed input the empty string for each field lacking a key:value
\* form while the well-formed fields are still returned.
C5_ParseCoords ==
  pc = "done" =>
    /\ Len(ret) = 3
    /\ ret = <<ExpectedCoord(call.fields, "X"), ExpectedCoord(call.fields, "Y"),
               ExpectedCoord(call.fields, "Z")>>
    /\ call.coord_str \in Unavailable => ret = <<"", "", "">>

\* the malformed case: one field without a colon, the two others returned
C5_Witness ==
  /\ pc = "done"
  /\ Len(call.fields) = 3
  /\ \E i \in 1..3 : call.fields[i].form = "nocolon" /\ call.fields[i].key = "Y"
  /\ \E i \in 1..3 : call.fields[i].form = "spaced"
  /\ ret[1] = "10" /\ ret[2] = "" /\ ret[3] = "-5"

(***************************************************************************)
(* NBT library accessors used by the context extractors                    *)
(***************************************************************************)
\* bool(tag): a Compound or List is falsy when it has no children (the
\* library gives containers a length); every other tag object is truthy.
TagTruthy(tag) == IF IsContainer(tag) THEN Len(tag.tags) > 0 ELSE TRUE

HasChild(tag, name) == \E i \in 1..Len(tag.tags) : tag.tags[i].name = Some(name)

\* compound.get(name) when the child exists: the first child of that name
Child(tag, name) ==
  tag.tags[CHOOSE i \in 1..Len(tag.tags) :
             /\ tag.tags[i].name = Some(name)
             /\ \A j \in 1..(i - 1) : tag.tags[j].name # Some(name)]

\* `compound.get(name)` used as a condition: present and truthy
GetTruthy(tag, name) == HasChild(tag, name) /\ TagTruthy(Child(tag, name))

RECURSIVE RemoveAll(_, _)
\* str.replace(sub, '') for a non-empty sub
RemoveAll(s, sub) ==
  IF Len(s) < Len(sub) THEN s
  ELSE IF StartsWith(s, sub) THEN RemoveAll(SubSeq(s, Len(sub) + 1, Len(s)), sub)
  ELSE Head(s) \o RemoveAll(Tail(s), sub)

\* str.endswith(suffix)
EndsWith(s, suffix) ==
  Len(suffix) <= Len(s) /\ SubSeq(s, Len(s) - Len(suffix) + 1, Len(s)) = suffix

(***************************************************************************)
(* Files.  A .dat file is [name, kind, nbt]: kind "ok" decodes to the tree *)
(* nbt, kind "malformed" makes NBTFile raise MalformedFileError, kind      *)
(* "missing" is a path that does not exist.                                *)
(***************************************************************************)
NoTag == Compound(Some(""), <<>>)
DatFile(name, kind, nbt) == [name |-> name, kind |-> kind, nbt |-> nbt]

(***************************************************************************)
(* parse_player_data                                                       *)
(***************************************************************************)
\* lines 159-161
LocDesc(nbt_path) ==
  IF StartsWith(nbt_path, "root.Inventory") THEN "Player Inventory"
  ELSE IF StartsWith(nbt_path, "root.EnderItems") THEN "Ender Chest"
  ELSE "Player Data (Other)"

\* line 162, with the auxiliary position of the matched tag
PlayerFinding(player_id, f) ==
  [player_id |-> player_id, loc_desc |-> LocDesc(f.path), path |-> f.path,
   name |-> f.name, value |-> f.value, node |-> f.node]

\* lines 151-167: a file that does not decode yields no findings
PlayerFindings(player_id, results) ==
  [i \in 1..Len(results) |-> PlayerFinding(player_id, results[i])]

parse_player_data(file, criteria) ==
  IF file.kind # "ok" THEN <<>>
  ELSE PlayerFindings(RemoveAll(file.name, ".dat"),
                      find_nbt_tags_recursive(file.nbt, criteria, "root"))

(***************************************************************************)
(* Specification of one call of parse_player_data                          *)
(***************************************************************************)
Elytra == "minecraft:elytra"
ItemTag == Compound(Some(""), <<Scalar(Some("id"), StrVal(Elytra))>>)

PlayerChildNames == {"Inventory", "EnderItems", "InventoryBackup", "SelectedItem"}

\* what a child of the player root may hold (named when placed)
PlayerChildTags ==
  {List(None, <<>>), List(None, <<ItemTag>>), ItemTag,
   Scalar(None, StrVal(Elytra))}

PlayerRoots ==
  {Compound(Some(""), tags) :
     tags \in {f \in SeqsUpTo({WithName(t, Some(n)) : t \in PlayerChildTags,
                                                      n \in PlayerChildNames},
                              MaxChildren) : DistinctNames(f)}}

PlayerCriteria ==
  {Criteria(Some("id"), Some(Elytra)), Criteria(Some("id"), None),
   Criteria(None, Some(Elytra))}

InitPlayer ==
  /\ pc = "call"
  /\ \E root \in PlayerRoots, c \in PlayerCriteria, k \in {"ok", "malformed"} :
       call = [file |-> DatFile("steve.dat", k, root), search_criteria |-> c]
  /\ ret = <<>>
  /\ args = Idle /\ world = Idle /\ search_criteria = Idle /\ todo = Idle
  /\ master_findings_list = Idle /\ temp_misc_findings_console = Idle
  /\ report = Idle

CallParsePlayerData ==
  /\ pc = "call"
  /\ ret' = parse_player_data(call.file, call.search_criteria)
  /\ pc' = "done"
  /\ UNCHANGED <<call, args, world, search_criteria, todo, master_findings_list,
                 temp_misc_findings_console, report>>

SpecPlayer == InitPlayer /\ [][CallParsePlayerData]_vars

\* the position lies in the subtree of the root's child of that name
UnderRootChild(root, node, name) ==
  /\ node # <<>>
  /\ root.tags[node[1]].name = Some(name)

\* C8: a finding is "Player Inventory" exactly when its node is the root's
\* Inventory child or below it, "Ender Chest" exactly when it is the root's
\* EnderItems child or below it, and "Player Data (Other)" otherwise.
C8_LocationByPosition ==
  pc = "done" =>
    \A i \in 1..Len(ret) :
      ret[i].loc_desc =
        IF UnderRootChild(call.file.nbt, ret[i].node, "Inventory") THEN "Player Inventory"
        ELSE IF UnderRootChild(call.file.nbt, ret[i].node, "EnderItems") THEN "Ender Chest"
        ELSE "Player Data (Other)"

(***************************************************************************)
(* Region / entity files: 32 x 32 cells, scanned x-major.  A cell is       *)
(*   "absent"  - get_nbt raises InconceivedChunk (no such chunk)           *)
(*   "ioerror" - get_nbt raises IOError                                    *)
(*   "corrupt" - get_nbt raises another exception (bad chunk data)         *)
(*   "chunk"   - get_nbt returns the decoded tree nbt                      *)
(* GridSide stands for the 32 of range(32).                                *)
(***************************************************************************)
GridSide == 2
Grid == 0..(GridSide - 1)

Cell(kind, nbt) == [kind |-> kind, nbt |-> nbt]
AbsentCell == Cell("absent", NoTag)
AnvilFile(name, kind, cells) == [name |-> name, kind |-> kind, cells |-> cells]

\* the cells in the order of the two nested loops
CellOrder == [k \in 1..(GridSide * GridSide) |->
                <<(k - 1) \div GridSide, (k - 1) % GridSide>>]

Digits == {"0", "1", "2", "3", "4", "5", "6", "7", "8", "9"}
IsDigit(c) == c \in Digits

DigitValue(c) ==
  CASE c = "0" -> 0 [] c = "1" -> 1 [] c = "2" -> 2 [] c = "3" -> 3 [] c = "4" -> 4
    [] c = "5" -> 5 [] c = "6" -> 6 [] c = "7" -> 7 [] c = "8" -> 8 [] OTHER -> 9

RECURSIVE ParseInt(_)
\* int(s) for a string of decimal digits
ParseInt(s) ==
  IF s = "" THEN 0
  ELSE ParseInt(SubSeq(s, 1, Len(s) - 1)) * 10 + DigitValue(CharAt(s, Len(s)))

BlockEntityListNames == {"block_entities", "BlockEntities", "tile_entities"}

\* number of leading digits of s from position i on
RECURSIVE DigitRun(_, _)
DigitRun(s, i) ==
  IF i <= Len(s) /\ IsDigit(CharAt(s, i)) THEN 1 + DigitRun(s, i + 1) ELSE 0

\* The regex of line 209 tried at position i of the path (MatchAt):
\*   \.(?:Level\.)?(block_entities|BlockEntities|tile_entities)\[(\d+)\]
\* yields <<list name, index>> or <<>>.
\* the name and index at the start of body: name[digits]
MatchIndex(body, n, d) ==
  IF d > 0 /\ CharAt(body, Len(n) + 2 + d) = "]"
  THEN <<n, ParseInt(SubSeq(body, Len(n) + 2, Len(n) + 1 + d))>>
  ELSE <<>>

MatchName(body, names) ==
  IF names = {} THEN <<>>
  ELSE MatchIndex(body, CHOOSE m \in names : TRUE,
                  DigitRun(body, Len(CHOOSE m \in names : TRUE) + 2))

MatchBody(body) ==
  MatchName(body, {n \in BlockEntityListNames : StartsWith(body, n \o "[")})

MatchAfterDot(afterDot) ==
  MatchBody(IF StartsWith(afterDot, "Level.")
            THEN SubSeq(afterDot, 7, Len(afterDot)) ELSE afterDot)

MatchAt(path, i) ==
  IF CharAt(path, i) # "." THEN <<>>
  ELSE MatchAfterDot(SubSeq(path, i + 1, Len(path)))

RECURSIVE SearchFrom(_, _)
SearchFrom(path, i) ==
  IF i = 0 THEN <<>>
  ELSE IF MatchAt(path, i) # <<>> THEN MatchAt(path, i)
  ELSE SearchFrom(path, IndexFrom(path, ".", i + 1))

\* re.search: the leftmost position where the regex matches
FirstMatch(path) == SearchFrom(path, IndexFrom(path, ".", 1))

\* a variant that looks under Level first; C15 must reject it
BeListCandidateLevelFirst(chunk_nbt, be_list_name) ==
  IF /\ GetTruthy(chunk_nbt, "Level")
     /\ Child(chunk_nbt, "Level").kind = "Compound"
     /\ GetTruthy(Child(chunk_nbt, "Level"), be_list_name)
  THEN <<Child(Child(chunk_nbt, "Level"), be_list_name)>>
  ELSE IF GetTruthy(chunk_nbt, be_list_name) THEN <<Child(chunk_nbt, be_list_name)>>
       ELSE <<>>

\* lines 217-224: the list at the chunk root if truthy, else the one under a
\* truthy Compound Level if truthy; <<>> when there is none
BeListCandidate(chunk_nbt, be_list_name) ==
  IF GetTruthy(chunk_nbt, be_list_name) THEN <<Child(chunk_nbt, be_list_name)>>
  ELSE IF /\ GetTruthy(chunk_nbt, "Level")
          /\ Child(chunk_nbt, "Level").kind = "Compound"
          /\ GetTruthy(Child(chunk_nbt, "Level"), be_list_name)
       THEN <<Child(Child(chunk_nbt, "Level"), be_list_name)>>
       ELSE <<>>

\* line 235
FormatBlockCoords(block_entity_tag) ==
  "X:" \o Str(Child(block_entity_tag, "x").val) \o ", Y:"
       \o Str(Child(block_entity_tag, "y").val) \o ", Z:"
       \o Str(Child(block_entity_tag, "z").val)

\* lines 205-236
\* lines 229-235
CoordsOfBlockEntity(block_entity_tag) ==
  IF /\ block_entity_tag.kind = "Compound"
     /\ GetTruthy(block_entity_tag, "x")
     /\ GetTruthy(block_entity_tag, "y")
     /\ GetTruthy(block_entity_tag, "z")
  THEN FormatBlockCoords(block_entity_tag)
  ELSE "N/A"

\* lines 226-228
CoordsOfCandidate(cand, be_idx) ==
  IF cand # <<>> /\ cand[1].kind = "List" /\ be_idx < Len(cand[1].tags)
  THEN CoordsOfBlockEntity(cand[1].tags[be_idx + 1])
  ELSE "N/A"

\* lines 211-236
CoordsOfMatch(chunk_nbt, match) ==
  IF match = <<>> THEN "N/A"
  ELSE CoordsOfCandidate(BeListCandidate(chunk_nbt, match[1]), match[2])

\* lines 205-236
BlockCoordsStr(chunk_nbt, nbt_path) == CoordsOfMatch(chunk_nbt, FirstMatch(nbt_path))

\* line 201
ChunkCoordStr(x, z) == "Chunk[" \o ToString(x) \o "," \o ToString(z) \o "]"

\* lines 198-237 for one decoded chunk; cell and node are auxiliary (the cell
\* and the position of the matched tag in its chunk)
RegionFinding(file_name, chunk_nbt, x, z, f) ==
  [file |-> file_name, chunk |-> ChunkCoordStr(x, z),
   block_coords |-> BlockCoordsStr(chunk_nbt, f.path),
   path |-> f.path, name |-> f.name, value |-> f.value,
   cell |-> <<x, z>>, node |-> f.node]

KeepResolved(f) == f.block_coords # "N/A"
\* a variant that drops the findings whose coordinates are not resolved; C12
\* must reject it
RegionFindingsResolvedOnly(file_name, chunk_nbt, x, z, chunk_findings) ==
  SelectSeq([i \in 1..Len(chunk_findings) |->
               RegionFinding(file_name, chunk_nbt, x, z, chunk_findings[i])],
            KeepResolved)

\* lines 204-237: one tuple per finding of the chunk, in the same order
RegionFindings(file_name, chunk_nbt, x, z, chunk_findings) ==
  [i \in 1..Len(chunk_findings) |->
     RegionFinding(file_name, chunk_nbt, x, z, chunk_findings[i])]

ChunkFindings(file_name, chunk_nbt, criteria, x, z) ==
  RegionFindings(file_name, chunk_nbt, x, z,
                 find_nbt_tags_recursive(chunk_nbt, criteria, ChunkCoordStr(x, z)))

RECURSIVE RegionCells(_, _, _)
\* lines 191-237: the loop over the cells from the k-th on.  An absent cell or
\* an IOError is skipped, another exception leaves both loops (it is caught
\* by the handlers of lines 238-242), an empty root compound is falsy.
RegionCells(file, criteria, k) ==
  IF k > Len(CellOrder) THEN <<>>
  ELSE LET x == CellOrder[k][1]
           z == CellOrder[k][2]
           cell == file.cells[<<x, z>>]
       IN IF cell.kind = "corrupt" THEN <<>>
          ELSE IF cell.kind = "chunk" /\ TagTruthy(cell.nbt)
               THEN ChunkFindings(file.name, cell.nbt, criteria, x, z)
                      \o RegionCells(file, criteria, k + 1)
               ELSE RegionCells(file, criteria, k + 1)

\* lines 183-243: a file that RegionFile cannot open yields no findings
parse_region_file(file, criteria) ==
  IF file.kind # "ok" THEN <<>> ELSE RegionCells(file, criteria, 1)

\* lines 445-454
RegionRecordOf(f, b) ==
  [data_source |-> "RegionFile_BlockEntity", file_name |-> f.file,
   player_id_or_entity_type |-> "",
   location_category |-> "BlockEntity in " \o f.chunk,
   coord_x |-> b[1], coord_y |-> b[2], coord_z |-> b[3],
   nbt_path_to_item |-> f.path, found_item_name_tag |-> f.name,
   found_item_value |-> f.value, raw_nbt_path |-> f.path]

RegionRecord(f) == RegionRecordOf(f, parse_coords(f.block_coords))

(***************************************************************************)
(* Specification of one call of parse_region_file                          *)
(***************************************************************************)
Diamond == "minecraft:diamond"

\* a chest at (x, y, z) holding one item
BlockEntity(x, y, z) ==
  Compound(Some(""),
    <<Scalar(Some("id"), StrVal("minecraft:chest")),
      Scalar(Some("x"), IntVal(x)), Scalar(Some("y"), IntVal(y)),
      Scalar(Some("z"), IntVal(z)),
      List(Some("Items"), <<Compound(Some(""), <<Scalar(Some("id"), StrVal(Diamond))>>)>>)>>)

\* a block entity that lacks its y coordinate
BlockEntityNoY ==
  Compound(Some(""),
    <<Scalar(Some("id"), StrVal(Diamond)), Scalar(Some("x"), IntVal(7)),
      Scalar(Some("z"), IntVal(9))>>)

\* the element lists a block-entity list may hold (<<>>: the list is absent)
BlockEntityLists ==
  {<<>>,
   <<BlockEntity(10, 64, -5)>>,
   <<BlockEntity(0, -1, 0), BlockEntity(10, 64, -5)>>,
   <<BlockEntityNoY>>,
   <<Scalar(None, StrVal(Diamond))>>}

Opt(present, tag) == IF present THEN <<tag>> ELSE <<>>

\* a chunk root: the list at the root and/or under Level, and optionally a
\* list of the same name inside another compound
ChunkRoot(n, atRoot, underLevel, elsewhere) ==
  Compound(Some(""),
    Opt(atRoot # <<>>, List(Some(n), atRoot))
    \o Opt(underLevel # <<>>, Compound(Some("Level"), <<List(Some(n), underLevel)>>))
    \o Opt(elsewhere, Compound(Some("structures"),
                        <<List(Some(n), <<BlockEntity(1, 2, 3)>>)>>)))

ChunkRoots ==
  {ChunkRoot(n, r, l, e) : n \in BlockEntityListNames, r \in BlockEntityLists,
                           l \in BlockEntityLists, e \in BOOLEAN}

SmallChunk == ChunkRoot("block_entities", <<BlockEntity(10, 64, -5)>>, <<>>, FALSE)

BackgroundCells ==
  {AbsentCell, Cell("ioerror", NoTag), Cell("corrupt", NoTag), Cell("chunk", SmallChunk)}

\* region files with one chosen chunk in one cell and the same background in
\* every other cell, and one file that does not open
RegionFiles ==
  {AnvilFile("r.0.0.mca", "ok", [c \in Grid \X Grid |-> IF c = at THEN Cell("chunk", root) ELSE bg]) :
     at \in Grid \X Grid, root \in ChunkRoots, bg \in BackgroundCells}
  \cup {AnvilFile("r.0.0.mca", "malformed", [c \in Grid \X Grid |-> AbsentCell])}

RegionCriteria ==
  {Criteria(Some("id"), Some(Diamond)), Criteria(Some("id"), None),
   Criteria(Some("x"), None), Criteria(None, Some(Diamond)), Criteria(None, None)}

InitRegion ==
  /\ pc = "call"
  /\ call \in [file : RegionFiles, search_criteria : RegionCriteria]
  /\ ret = <<>>
  /\ args = Idle /\ world = Idle /\ search_criteria = Idle /\ todo = Idle
  /\ master_findings_list = Idle /\ temp_misc_findings_console = Idle
  /\ report = Idle

CallParseRegionFile ==
  /\ pc = "call"
  /\ ret' = parse_region_file(call.file, call.search_criteria)
  /\ pc' = "done"
  /\ UNCHANGED <<call, args, world, search_criteria, todo, master_findings_list,
                 temp_misc_findings_console, report>>

SpecRegion == InitRegion /\ [][CallParseRegionFile]_vars

IsBlockEntityList(tag) ==
  tag.kind = "List" /\ \E n \in BlockEntityListNames : tag.name = Some(n)

\* the element of the chunk's block-entity list (at the root or under Level)
\* that holds the position, as a sequence of length 0 or 1
OwningBlockEntity(chunk_nbt, node) ==
  IF Len(node) >= 2 /\ IsBlockEntityList(chunk_nbt.tags[node[1]])
  THEN <<NodeAt(chunk_nbt, SubSeq(node, 1, 2))>>
  ELSE IF /\ Len(node) >= 3
          /\ chunk_nbt.tags[node[1]].kind = "Compound"
          /\ chunk_nbt.tags[node[1]].name = Some("Level")
          /\ IsBlockEntityList(NodeAt(chunk_nbt, SubSeq(node, 1, 2)))
       THEN <<NodeAt(chunk_nbt, SubSeq(node, 1, 3))>>
       ELSE <<>>

HasScalarChild(tag, name) == HasChild(tag, name) /\ Child(tag, name).kind = "Scalar"

HasXYZ(tag) ==
  /\ tag.kind = "Compound"
  /\ HasScalarChild(tag, "x") /\ HasScalarChild(tag, "y") /\ HasScalarChild(tag, "z")

\* C6: a finding inside element i of the chunk's block-entity list carries
\* the x, y, z of that same element as X:<x>, Y:<y>, Z:<z> when the element
\* is a compound with scalar x, y, z; every other finding carries N/A; the
\* orchestrator reports them as coord_x, coord_y, coord_z under a location
\* category containing "BlockEntity".
C6_OwnBlockEntityCoords ==
  pc = "done" =>
    \A i \in 1..Len(ret) :
      LET chunk_nbt == call.file.cells[ret[i].cell].nbt
          owner == OwningBlockEntity(chunk_nbt, ret[i].node)
          rec == RegionRecord(ret[i])
      IN /\ StartsWith(rec.location_category, "BlockEntity")
         /\ IF owner # <<>> /\ HasXYZ(owner[1])
            THEN /\ ret[i].block_coords = FormatBlockCoords(owner[1])
                 /\ rec.coord_x = Str(Child(owner[1], "x").val)
                 /\ rec.coord_y = Str(Child(owner[1], "y").val)
                 /\ rec.coord_z = Str(Child(owner[1], "z").val)
            ELSE /\ ret[i].block_coords = "N/A"
                 /\ rec.coord_x = "" /\ rec.coord_y = "" /\ rec.coord_z = ""

(***************************************************************************)
(* parse_entity_file                                                       *)
(***************************************************************************)
TwoDigits(n) == IF n < 10 THEN "0" \o ToString(n) ELSE ToString(n)

\* the hundredths nearest to |n|/8, ties to even: what the format spec .2f
\* prints for a double that is a multiple of 1/8
Hundredths(n) ==
  LET q == (Abs(n) * 25) \div 2
      tie == (Abs(n) * 25) % 2 = 1
  IN IF tie /\ q % 2 = 1 THEN q + 1 ELSE q

\* f"{v:.2f}" for a double or an int
FormatF2(val) ==
  IF val.t = "dbl"
  THEN (IF val.n < 0 THEN "-" ELSE "") \o ToString(Hundredths(val.n) \div 100)
         \o "." \o TwoDigits(Hundredths(val.n) % 100)
  ELSE ToString(val.n) \o ".00"

\* lines 286-289
EntityType(entity) ==
  IF GetTruthy(entity, "id") THEN Str(Child(entity, "id").val)
  ELSE "Unknown Entity Type"

HasPos3(entity) ==
  /\ GetTruthy(entity, "Pos")
  /\ Child(entity, "Pos").kind = "List"
  /\ Len(Child(entity, "Pos").tags) = 3

\* line 297 raises ValueError for a string value, which the handler of line
\* 298 (AttributeError, IndexError, TypeError) does not catch
PosRaises(entity) ==
  HasPos3(entity) /\ \E i \in 1..3 : Child(entity, "Pos").tags[i].val.t = "str"

\* lines 292-298: a value of None (a container element) raises TypeError,
\* which is caught and leaves the marker
EntityCoordsStr(entity) ==
  IF HasPos3(entity) /\ \A i \in 1..3 : Child(entity, "Pos").tags[i].val.t \in {"dbl", "int"}
  THEN LET pos == Child(entity, "Pos").tags
       IN "X:" \o FormatF2(pos[1].val) \o ", Y:" \o FormatF2(pos[2].val)
              \o ", Z:" \o FormatF2(pos[3].val)
  ELSE "N/A_Pos"

\* line 276
SectorCoordStr(x, z) == "Sector[" \o ToString(x) \o "," \o ToString(z) \o "]"

\* lines 303-304, 307-308, 322-323; cell, entity (index in the list, -1 for a
\* raw sector search) and node (position inside the searched tree) are
\* auxiliary
EntityFindingsOf(file_name, x, z, entity_type, coords, entity_index, fs) ==
  [i \in 1..Len(fs) |->
     [file |-> file_name, sector |-> SectorCoordStr(x, z),
      entity_type |-> entity_type, coords |-> coords,
      path |-> fs[i].path, name |-> fs[i].name, value |-> fs[i].value,
      cell |-> <<x, z>>, entity |-> entity_index, node |-> fs[i].node]]

EntityFindings(file_name, x, z, entity_type, coords, prefix, tag, criteria, entity_index) ==
  EntityFindingsOf(file_name, x, z, entity_type, coords, entity_index,
                   find_nbt_tags_recursive(tag, criteria, prefix))

RECURSIVE EntityLoop(_, _, _, _, _, _)
\* lines 283-304: the entities from the i-th on.  The result is
\* [out, raised]: raised when an exception left the loop.
EntityLoop(file_name, x, z, entities, criteria, i) ==
  IF i > Len(entities) THEN [out |-> <<>>, raised |-> FALSE]
  ELSE LET entity == entities[i]
       IN IF entity.kind # "Compound"
          THEN EntityLoop(file_name, x, z, entities, criteria, i + 1)
          ELSE IF PosRaises(entity) THEN [out |-> <<>>, raised |-> TRUE]
          ELSE LET own == EntityFindings(file_name, x, z, EntityType(entity),
                            EntityCoordsStr(entity),
                            SectorCoordStr(x, z) \o ".Entities[" \o ToString(i - 1) \o "]",
                            entity, criteria, i - 1)
                   rest == EntityLoop(file_name, x, z, entities, criteria, i + 1)
               IN [out |-> own \o rest.out, raised |-> rest.raised]

RECURSIVE RootListLoop(_, _, _, _, _, _)
\* lines 310-323: a sector whose root is a list; the bare except of line 319
\* catches every formatting error
RootListLoop(file_name, x, z, entities, criteria, i) ==
  IF i > Len(entities) THEN <<>>
  ELSE LET entity == entities[i]
       IN IF entity.kind # "Compound"
          THEN RootListLoop(file_name, x, z, entities, criteria, i + 1)
          ELSE EntityFindings(file_name, x, z,
                 IF GetTruthy(entity, "id") THEN Str(Child(entity, "id").val) ELSE "Unknown",
                 EntityCoordsStr(entity),
                 SectorCoordStr(x, z) \o "[" \o ToString(i - 1) \o "]",
                 entity, criteria, i - 1)
               \o RootListLoop(file_name, x, z, entities, criteria, i + 1)

\* line 282: the per-entity path needs a truthy (non-empty) list
UsesEntitiesList(sector_nbt) ==
  /\ GetTruthy(sector_nbt, "Entities")
  /\ Child(sector_nbt, "Entities").kind = "List"

\* lines 275-323 for one decoded sector
SectorFindings(file_name, sector_nbt, criteria, x, z) ==
  IF sector_nbt.kind = "Compound"
  THEN IF UsesEntitiesList(sector_nbt)
       THEN EntityLoop(file_name, x, z, Child(sector_nbt, "Entities").tags, criteria, 1)
       ELSE [out |-> EntityFindings(file_name, x, z, "RawSectorSearch", "N/A",
                       SectorCoordStr(x, z), sector_nbt, criteria, -1),
             raised |-> FALSE]
  ELSE IF sector_nbt.kind = "List"
       THEN [out |-> RootListLoop(file_name, x, z, sector_nbt.tags, criteria, 1),
             raised |-> FALSE]
       ELSE [out |-> <<>>, raised |-> FALSE]

RECURSIVE EntityCells(_, _, _)
\* lines 267-323: every exception of get_nbt is caught per cell (lines
\* 271-273); an exception raised while a sector is processed leaves both
\* loops and is swallowed by lines 326-328 with the findings so far kept
EntityCells(file, criteria, k) ==
  IF k > Len(CellOrder) THEN <<>>
  ELSE LET x == CellOrder[k][1]
           z == CellOrder[k][2]
           cell == file.cells[<<x, z>>]
       IN IF cell.kind = "chunk" /\ TagTruthy(cell.nbt)
          THEN LET s == SectorFindings(file.name, cell.nbt, criteria, x, z)
               IN IF s.raised THEN s.out
                  ELSE s.out \o EntityCells(file, criteria, k + 1)
          ELSE EntityCells(file, criteria, k + 1)

\* lines 259-329
parse_entity_file(file, criteria) ==
  IF file.kind # "ok" THEN <<>> ELSE EntityCells(file, criteria, 1)

\* lines 466-475
EntityRecordOf(f, e) ==
  [data_source |-> "EntityFile_Entity", file_name |-> f.file,
   player_id_or_entity_type |-> f.entity_type,
   location_category |-> "Entity in " \o f.sector,
   coord_x |-> e[1], coord_y |-> e[2], coord_z |-> e[3],
   nbt_path_to_item |-> f.path, found_item_name_tag |-> f.name,
   found_item_value |-> f.value, raw_nbt_path |-> f.path]

EntityRecord(f) == EntityRecordOf(f, parse_coords(f.coords))

(***************************************************************************)
(* Specification of one call of parse_entity_file                          *)
(***************************************************************************)
MaxEntities == 2

ItemId == "minecraft:item"

Pos3(a, b, c) ==
  List(Some("Pos"), <<Scalar(None, DblVal(a)), Scalar(None, DblVal(b)),
                      Scalar(None, DblVal(c))>>)

\* a dropped item at (1.5, 64.0, 2.25)
ItemEntity ==
  Compound(Some(""),
    <<Scalar(Some("id"), StrVal(ItemId)), Pos3(12, 512, 18),
      Compound(Some("Item"), <<Scalar(Some("id"), StrVal(Diamond))>>)>>)

\* a cow at (0.125, -3.0, 0.375)
CowEntity ==
  Compound(Some(""), <<Scalar(Some("id"), StrVal("minecraft:cow")), Pos3(1, -24, 3)>>)

\* no id, a Pos of two values, and a tag whose value is the item id
OddEntity ==
  Compound(Some(""),
    <<List(Some("Pos"), <<Scalar(None, DblVal(8)), Scalar(None, DblVal(8))>>),
      Scalar(Some("CustomName"), StrVal(ItemId))>>)

\* a Pos of three strings
TextPosEntity ==
  Compound(Some(""),
    <<Scalar(Some("id"), StrVal(ItemId)),
      List(Some("Pos"), <<Scalar(None, StrVal("1")), Scalar(None, StrVal("2")),
                          Scalar(None, StrVal("3"))>>)>>)

WellFormedEntities == {ItemEntity, CowEntity}
EntityTags == WellFormedEntities \cup {OddEntity, TextPosEntity, Scalar(None, StrVal(ItemId))}

SectorRoots ==
  {Compound(Some(""), <<Scalar(Some("DataVersion"), IntVal(3465)), List(Some("Entities"), es)>>) :
     es \in SeqsUpTo(EntityTags, MaxEntities)}
  \cup {Compound(Some(""), <<Scalar(Some("DataVersion"), IntVal(3465))>>),
        Compound(Some(""), <<Scalar(Some("Entities"), StrVal(ItemId))>>),
        List(Some(""), <<ItemEntity, CowEntity>>)}

SmallSector == Compound(Some(""), <<List(Some("Entities"), <<ItemEntity>>)>>)

BackgroundSectors ==
  {AbsentCell, Cell("ioerror", NoTag), Cell("corrupt", NoTag), Cell("chunk", SmallSector)}

EntityFiles ==
  {AnvilFile("r.0.0.mca", "ok", [c \in Grid \X Grid |-> IF c = at THEN Cell("chunk", root) ELSE bg]) :
     at \in Grid \X Grid, root \in SectorRoots, bg \in BackgroundSectors}
  \cup {AnvilFile("r.0.0.mca", "malformed", [c \in Grid \X Grid |-> AbsentCell])}

EntityCriteria ==
  {Criteria(None, Some(ItemId)), Criteria(Some("id"), Some(ItemId)),
   Criteria(Some("id"), None)}

InitEntity ==
  /\ pc = "call"
  /\ call \in [file : EntityFiles, search_criteria : EntityCriteria]
  /\ ret = <<>>
  /\ args = Idle /\ world = Idle /\ search_criteria = Idle /\ todo = Idle
  /\ master_findings_list = Idle /\ temp_misc_findings_console = Idle
  /\ report = Idle

CallParseEntityFile ==
  /\ pc = "call"
  /\ ret' = parse_entity_file(call.file, call.search_criteria)
  /\ pc' = "done"
  /\ UNCHANGED <<call, args, world, search_criteria, todo, master_findings_list,
                 temp_misc_findings_console, report>>

SpecEntity == InitEntity /\ [][CallParseEntityFile]_vars

\* every populated sector of the file is a compound holding a non-empty
\* Entities list of well-formed entity compounds (id and three Pos doubles)
EntitySectorsOnly(file) ==
  /\ file.kind = "ok"
  /\ \A c \in Grid \X Grid :
       file.cells[c].kind = "chunk" =>
         LET root == file.cells[c].nbt
         IN /\ root.kind = "Compound"
            /\ HasChild(root, "Entities")
            /\ Child(root, "Entities").kind = "List"
            /\ Child(root, "Entities").tags # <<>>
            /\ \A i \in 1..Len(Child(root, "Entities").tags) :
                 Child(root, "Entities").tags[i] \in WellFormedEntities

ExpectedEntityCoords(entity) ==
  LET pos == Child(entity, "Pos").tags
  IN "X:" \o FormatF2(pos[1].val) \o ", Y:" \o FormatF2(pos[2].val)
       \o ", Z:" \o FormatF2(pos[3].val)

\* C7: a value-only search for V over sectors holding an Entities list of
\* entity compounds yields exactly one finding per scalar tag inside an entity
\* whose string form is V and nothing else; each finding carries the string
\* of its own entity's id as entity type and that entity's Pos to two decimals.
C7_ValueOnlyEntitySearch ==
  (/\ pc = "done"
   /\ EntitySectorsOnly(call.file)
   /\ ~HasName(call.search_criteria) /\ HasValue(call.search_criteria)) =>
    /\ \A c \in Grid \X Grid :
         call.file.cells[c].kind = "chunk" =>
           LET es == Child(call.file.cells[c].nbt, "Entities").tags
           IN \A e \in 1..Len(es) : \A a \in Addresses(es[e]) :
                Cardinality({i \in 1..Len(ret) :
                               /\ ret[i].cell = c /\ ret[i].entity = e - 1
                               /\ ret[i].node = a})
                  = IF /\ NodeAt(es[e], a).kind = "Scalar"
                       /\ Str(NodeAt(es[e], a).val) = Get(call.search_criteria.value)
                    THEN 1 ELSE 0
    /\ \A i \in 1..Len(ret) :
         LET es == Child(call.file.cells[ret[i].cell].nbt, "Entities").tags
             own == es[ret[i].entity + 1]
         IN /\ ret[i].entity_type = Str(Child(own, "id").val)
            /\ ret[i].coords = ExpectedEntityCoords(own)
            /\ EntityRecord(ret[i]).coord_x = FormatF2(Child(own, "Pos").tags[1].val)

(***************************************************************************)
(* parse_misc_nbt_file                                                     *)
(***************************************************************************)
\* lines 343-360: a path that does not exist or does not decode yields no
\* findings; the search starts at the root's name, or "root" if it is empty
MiscFindings(file_name, findings) ==
  [i \in 1..Len(findings) |->
     [file |-> file_name, path |-> findings[i].path,
      name |-> findings[i].name, value |-> findings[i].value]]

parse_misc_nbt_file(file, criteria) ==
  IF file.kind # "ok" THEN <<>>
  ELSE MiscFindings(file.name,
         find_nbt_tags_recursive(file.nbt, criteria,
           IF Truthy(file.nbt.name) THEN Get(file.nbt.name) ELSE "root"))

(***************************************************************************)
(* The command line and the scan orchestrator                              *)
(***************************************************************************)
DefaultWorldDir == "sample_world"
DefaultOutputCsv == "nbt_findings.csv"

\* lines 422-429; origin is auxiliary: the source, the index of the file in
\* its directory listing and the index of the finding in the parser's result
PlayerRecord(p_fn, f, origin) ==
  [data_source |-> "PlayerData", file_name |-> p_fn,
   player_id_or_entity_type |-> f.player_id, location_category |-> f.loc_desc,
   coord_x |-> "", coord_y |-> "", coord_z |-> "",
   nbt_path_to_item |-> f.path, found_item_name_tag |-> f.name,
   found_item_value |-> f.value, raw_nbt_path |-> f.path, origin |-> origin]

WithOrigin(rec, origin) ==
  [data_source |-> rec.data_source, file_name |-> rec.file_name,
   player_id_or_entity_type |-> rec.player_id_or_entity_type,
   location_category |-> rec.location_category,
   coord_x |-> rec.coord_x, coord_y |-> rec.coord_y, coord_z |-> rec.coord_z,
   nbt_path_to_item |-> rec.nbt_path_to_item,
   found_item_name_tag |-> rec.found_item_name_tag,
   found_item_value |-> rec.found_item_value, raw_nbt_path |-> rec.raw_nbt_path,
   origin |-> origin]

\* line 494
MiscConsoleEntry(f) == [File |-> f.file, Path |-> f.path, Tag |-> f.name, Value |-> f.value]

\* lines 493-494
ConsoleAfterMisc(list, findings) ==
  list \o [i \in 1..Len(findings) |-> MiscConsoleEntry(findings[i])]

\* lines 421-429, for the file at index k of the listing
PlayerRecords(p_fn, k, findings) ==
  [i \in 1..Len(findings) |-> PlayerRecord(p_fn, findings[i], <<"PlayerData", k, i>>)]

\* lines 444-454
RegionRecords(k, findings) ==
  [i \in 1..Len(findings) |->
     WithOrigin(RegionRecord(findings[i]), <<"RegionFile_BlockEntity", k, i>>)]

\* lines 465-475
EntityRecords(k, findings) ==
  [i \in 1..Len(findings) |->
     WithOrigin(EntityRecord(findings[i]), <<"EntityFile_Entity", k, i>>)]

\* a variant that puts the newer records first; C9 must reject it
PrependRecords(list, records) == records \o list
\* master_findings_list.append(...) for each finding, in order
AppendRecords(list, records) == list \o records

\* lines 491-494: findings of the miscellaneous files go to the console list
\* only, master_findings_list is left as it is
MasterAfterMisc(list, findings) == list

\* lines 481-485, in the order of the dict
MiscPaths == <<"DIM-1/data/chunks.dat", "DIM1/data/chunks.dat", "data/WorldUUID.dat">>

\* lines 549-568: the search name and value to use, and whether to scan
MainDecision(a) ==
  IF IsNone(a.name) /\ IsNone(a.value)
  THEN IF a.world_dir = DefaultWorldDir /\ a.output_csv = DefaultOutputCsv
       THEN [run_search |-> TRUE, name |-> Some("id"), value |-> Some(Elytra)]
       ELSE [run_search |-> FALSE, name |-> a.name, value |-> a.value]
  ELSE [run_search |-> TRUE, name |-> a.name, value |-> a.value]

\* lines 401-403: a parameter enters the criteria only if it is truthy
BuildCriteria(search_name_param, search_value_param) ==
  Criteria(IF Truthy(search_name_param) THEN search_name_param ELSE None,
           IF Truthy(search_value_param) THEN search_value_param ELSE None)

\* lines 549-572: the entry point
Main ==
  /\ pc = "main"
  /\ call' = MainDecision(args)
  /\ pc' = IF MainDecision(args).run_search THEN "find_and_parse_data" ELSE "usage_error"
  /\ UNCHANGED <<ret, args, world, search_criteria, todo, master_findings_list,
                 temp_misc_findings_console, report>>

\* lines 401-409
StartScan ==
  /\ pc = "find_and_parse_data"
  /\ search_criteria' = BuildCriteria(call.name, call.value)
  /\ master_findings_list' = <<>>
  /\ todo' = 1
  /\ pc' = "players"
  /\ UNCHANGED <<call, ret, args, world, temp_misc_findings_console, report>>

\* the entries of a directory, none when the directory does not exist
Listing(dir) == IF dir.exists THEN dir.entries ELSE <<>>

\* lines 416-429: one entry of the playerdata listing
ScanPlayerFile ==
  /\ pc = "players"
  /\ todo <= Len(Listing(world.playerdata))
  /\ master_findings_list' =
       IF EndsWith(Listing(world.playerdata)[todo].name, ".dat")
       THEN AppendRecords(master_findings_list,
              PlayerRecords(Listing(world.playerdata)[todo].name, todo,
                parse_player_data(Listing(world.playerdata)[todo], search_criteria)))
       ELSE master_findings_list
  /\ todo' = todo + 1
  /\ UNCHANGED <<pc, call, ret, args, world, search_criteria,
                 temp_misc_findings_console, report>>

PlayersDone ==
  /\ pc = "players"
  /\ todo > Len(Listing(world.playerdata))
  /\ pc' = "regions"
  /\ todo' = 1
  /\ UNCHANGED <<call, ret, args, world, search_criteria, master_findings_list,
                 temp_misc_findings_console, report>>

\* lines 434-454: one entry of the region listing
ScanRegionFile ==
  /\ pc = "regions"
  /\ todo <= Len(Listing(world.region))
  /\ master_findings_list' =
       IF EndsWith(Listing(world.region)[todo].name, ".mca")
       THEN AppendRecords(master_findings_list,
              RegionRecords(todo, parse_region_file(Listing(world.region)[todo], search_criteria)))
       ELSE master_findings_list
  /\ todo' = todo + 1
  /\ UNCHANGED <<pc, call, ret, args, world, search_criteria,
                 temp_misc_findings_console, report>>

RegionsDone ==
  /\ pc = "regions"
  /\ todo > Len(Listing(world.region))
  /\ pc' = "entities"
  /\ todo' = 1
  /\ UNCHANGED <<call, ret, args, world, search_criteria, master_findings_list,
                 temp_misc_findings_console, report>>

\* lines 457-477: one entry of the entities listing
ScanEntityFile ==
  /\ pc = "entities"
  /\ todo <= Len(Listing(world.entities))
  /\ master_findings_list' =
       IF EndsWith(Listing(world.entities)[todo].name, ".mca")
       THEN AppendRecords(master_findings_list,
              EntityRecords(todo, parse_entity_file(Listing(world.entities)[todo], search_criteria)))
       ELSE master_findings_list
  /\ todo' = todo + 1
  /\ UNCHANGED <<pc, call, ret, args, world, search_criteria,
                 temp_misc_findings_console, report>>

EntitiesDone ==
  /\ pc = "entities"
  /\ todo > Len(Listing(world.entities))
  /\ pc' = "misc"
  /\ todo' = 1
  /\ temp_misc_findings_console' = <<>>
  /\ UNCHANGED <<call, ret, args, world, search_criteria, master_findings_list,
                 report>>

\* lines 487-494: one of the three miscellaneous files
ScanMiscFile ==
  /\ pc = "misc"
  /\ todo <= Len(MiscPaths)
  /\ temp_misc_findings_console' =
       ConsoleAfterMisc(temp_misc_findings_console,
                        parse_misc_nbt_file(world.misc[todo], search_criteria))
  /\ master_findings_list' =
       MasterAfterMisc(master_findings_list,
                       parse_misc_nbt_file(world.misc[todo], search_criteria))
  /\ todo' = todo + 1
  /\ UNCHANGED <<pc, call, ret, args, world, search_criteria, report>>

\* lines 531, 371-386: the list handed to write_findings_to_csv; nothing is
\* written when it is empty
WriteCsv ==
  /\ pc = "misc"
  /\ todo > Len(MiscPaths)
  /\ report' = [findings_list |-> master_findings_list,
                written |-> master_findings_list # <<>>]
  /\ pc' = "done"
  /\ UNCHANGED <<call, ret, args, world, search_criteria, todo,
                 master_findings_list, temp_misc_findings_console>>

Next ==
  \/ Main \/ StartScan
  \/ ScanPlayerFile \/ PlayersDone
  \/ ScanRegionFile \/ RegionsDone
  \/ ScanEntityFile \/ EntitiesDone
  \/ ScanMiscFile \/ WriteCsv

(***************************************************************************)
(* Inputs of a run: the command line and the world directory               *)
(***************************************************************************)
MaxFiles == 2

\* sequences of up to n distinct elements of S
DistinctSeqsUpTo(S, n) ==
  {f \in SeqsUpTo(S, n) : \A i, j \in 1..Len(f) : i # j => f[i] # f[j]}

Dir(exists, entries) == [exists |-> exists, entries |-> entries]
\* a directory that does not exist, or one with some entries in any order
Dirs(S) ==
  {Dir(FALSE, <<>>)} \cup {Dir(TRUE, es) : es \in DistinctSeqsUpTo(S, MaxFiles) \ {<<>>}}

PlayerEntries ==
  {DatFile("steve.dat", "ok",
     Compound(Some(""), <<List(Some("Inventory"), <<ItemTag>>),
                          List(Some("EnderItems"), <<ItemTag, ItemTag>>)>>)),
   DatFile("alex.dat", "ok",
     Compound(Some(""), <<List(Some("Inventory"), <<>>),
                          Compound(Some("SelectedItem"), <<Scalar(Some("id"), StrVal(Diamond))>>)>>)),
   DatFile("notes.txt", "malformed", NoTag)}

RegionEntries ==
  {AnvilFile("r.0.0.mca", "ok",
     [c \in Grid \X Grid |-> IF c = <<0, 0>> THEN Cell("chunk", SmallChunk) ELSE AbsentCell]),
   AnvilFile("r.0.1.mca", "ok",
     [c \in Grid \X Grid |->
        IF c = <<0, 0>> THEN Cell("ioerror", NoTag)
        ELSE IF c = <<1, 0>>
        THEN Cell("chunk", ChunkRoot("block_entities", <<>>,
                                     <<BlockEntity(0, -1, 0), BlockEntity(10, 64, -5)>>, FALSE))
        ELSE AbsentCell])}

EntityEntries ==
  {AnvilFile("r.0.0.mca", "ok",
     [c \in Grid \X Grid |->
        IF c = <<0, 0>>
        THEN Cell("chunk", Compound(Some(""), <<List(Some("Entities"), <<ItemEntity, CowEntity>>)>>))
        ELSE AbsentCell]),
   AnvilFile("r.0.1.mca", "malformed", [c \in Grid \X Grid |-> AbsentCell])}

\* the three miscellaneous paths: none exists, or the first and the last do
MiscWorlds ==
  {[i \in 1..3 |-> DatFile(MiscPaths[i], "missing", NoTag)],
   [i \in 1..3 |->
      IF i = 2 THEN DatFile(MiscPaths[i], "malformed", NoTag)
      ELSE DatFile(MiscPaths[i], "ok",
             Compound(Some(""), <<Scalar(Some("id"), StrVal(Elytra)),
                                  Scalar(Some("owner"), StrVal("steve"))>>))]}

Worlds ==
  [playerdata : Dirs(PlayerEntries), region : Dirs(RegionEntries),
   entities : Dirs(EntityEntries), misc : MiscWorlds]

\* --name and --value absent (None) or given, or one of them given as the
\* empty string; --world_dir and --output_csv at their defaults or not
CommandLines ==
  {[name |-> n, value |-> v, world_dir |-> DefaultWorldDir, output_csv |-> DefaultOutputCsv] :
     n \in {None, Some("id")}, v \in {None, Some(Elytra)}}
  \cup {[name |-> f[1], value |-> f[2], world_dir |-> DefaultWorldDir,
         output_csv |-> DefaultOutputCsv] : f \in {<<Some(""), None>>, <<None, Some("")>>}}
  \cup {[name |-> None, value |-> None, world_dir |-> w, output_csv |-> o] :
          w \in {DefaultWorldDir, "saves/MyWorld"}, o \in {DefaultOutputCsv, "out.csv"}}

Init ==
  /\ pc = "main"
  /\ args \in CommandLines
  /\ world \in Worlds
  /\ call = Idle /\ ret = Idle
  /\ search_criteria = Criteria(None, None)
  /\ todo = 0
  /\ master_findings_list = <<>>
  /\ temp_misc_findings_console = <<>>
  /\ report = [findings_list |-> <<>>, written |-> FALSE]

Spec == Init /\ [][Next]_vars


(***************************************************************************)
(* Claims about the orchestrator                                           *)
(***************************************************************************)
SourceRank(data_source) ==
  CASE data_source = "PlayerData" -> 1
    [] data_source = "RegionFile_BlockEntity" -> 2
    [] data_source = "EntityFile_Entity" -> 3
    [] OTHER -> 4

\* discovery order of two origins <<source, index of the file in its
\* listing, index of the finding in the parser's result>>
OriginBefore(o1, o2) ==
  \/ SourceRank(o1[1]) < SourceRank(o2[1])
  \/ /\ o1[1] = o2[1]
     /\ \/ o1[2] < o2[2]
        \/ o1[2] = o2[2] /\ o1[3] < o2[3]

InDiscoveryOrder(list) ==
  \A i, j \in 1..Len(list) : i < j => OriginBefore(list[i].origin, list[j].origin)

\* the finding i of the file k of a source has exactly one record in the
\* list, carrying the finding's file, path, name and value, and the file
\* has no other record
OneRecordEach(list, data_source, file_name, k, findings) ==
  /\ \A j \in 1..Len(list) :
       list[j].origin[1] = data_source /\ list[j].origin[2] = k =>
         list[j].origin[3] \in 1..Len(findings)
  /\ \A i \in 1..Len(findings) :
       /\ Cardinality({j \in 1..Len(list) : list[j].origin = <<data_source, k, i>>}) = 1
       /\ \A j \in 1..Len(list) :
            list[j].origin = <<data_source, k, i>> =>
              /\ list[j].data_source = data_source
              /\ list[j].file_name = file_name
              /\ list[j].raw_nbt_path = findings[i].path
              /\ list[j].found_item_name_tag = findings[i].name
              /\ list[j].found_item_value = findings[i].value

PlayersReported(list) ==
  \A k \in 1..Len(Listing(world.playerdata)) :
    EndsWith(Listing(world.playerdata)[k].name, ".dat") =>
      OneRecordEach(list, "PlayerData", Listing(world.playerdata)[k].name, k,
                    parse_player_data(Listing(world.playerdata)[k], search_criteria))

RegionsReported(list) ==
  \A k \in 1..Len(Listing(world.region)) :
    EndsWith(Listing(world.region)[k].name, ".mca") =>
      OneRecordEach(list, "RegionFile_BlockEntity", Listing(world.region)[k].name, k,
                    parse_region_file(Listing(world.region)[k], search_criteria))

EntitiesReported(list) ==
  \A k \in 1..Len(Listing(world.entities)) :
    EndsWith(Listing(world.entities)[k].name, ".mca") =>
      OneRecordEach(list, "EntityFile_Entity", Listing(world.entities)[k].name, k,
                    parse_entity_file(Listing(world.entities)[k], search_criteria))

MiscReported(list) ==
  \A k \in 1..Len(MiscPaths) :
    OneRecordEach(list, "MiscFile", world.misc[k].name, k,
                  parse_misc_nbt_file(world.misc[k], search_criteria))

\* every record of the list stands for a finding of one of the sources
OnlyFrom(list, sources) == \A j \in 1..Len(list) : list[j].origin[1] \in sources

\* every record of a source stands for a file of that source's listing
FromListing(list, data_source, names, ext) ==
  \A j \in 1..Len(list) :
    list[j].origin[1] = data_source =>
      /\ list[j].origin[2] \in 1..Len(names)
      /\ EndsWith(names[list[j].origin[2]], ext)

FileNames(listing) == [k \in 1..Len(listing) |-> listing[k].name]

RecordsFromListings(list) ==
  /\ FromListing(list, "PlayerData", FileNames(Listing(world.playerdata)), ".dat")
  /\ FromListing(list, "RegionFile_BlockEntity", FileNames(Listing(world.region)), ".mca")
  /\ FromListing(list, "EntityFile_Entity", FileNames(Listing(world.entities)), ".mca")
  /\ FromListing(list, "MiscFile", MiscPaths, ".dat")

FoundByMisc ==
  \E k \in 1..Len(MiscPaths) : parse_misc_nbt_file(world.misc[k], search_criteria) # <<>>

\* C9 (as stated): the report handed to the CSV writer holds exactly one
\* record per finding of every source, the miscellaneous .dat files
\* included, in discovery order: players, regions, entities, then misc.
C9_AllSourcesReported ==
  pc = "done" =>
    /\ InDiscoveryOrder(report.findings_list)
    /\ PlayersReported(report.findings_list)
    /\ RegionsReported(report.findings_list)
    /\ EntitiesReported(report.findings_list)
    /\ MiscReported(report.findings_list)
    /\ RecordsFromListings(report.findings_list)

\* C9 (amended): the list being collected is in discovery order at every
\* step, and the report handed to the CSV writer holds exactly one record
\* per finding of the player data, the region files and the entity files,
\* players first, then regions, then entities, within a source in
\* file-listing order and then traversal order; the findings of the
\* miscellaneous .dat files are on the console list only and have no record
\* in the report.
C9_ReportInDiscoveryOrder ==
  /\ InDiscoveryOrder(master_findings_list)
  /\ pc = "done" =>
       /\ InDiscoveryOrder(report.findings_list)
       /\ PlayersReported(report.findings_list)
       /\ RegionsReported(report.findings_list)
       /\ EntitiesReported(report.findings_list)
       /\ OnlyFrom(report.findings_list,
                   {"PlayerData", "RegionFile_BlockEntity", "EntityFile_Entity"})
       /\ RecordsFromListings(report.findings_list)
       /\ Len(temp_misc_findings_console) > 0 <=> FoundByMisc

\* a finished scan whose report has records of all three merged sources,
\* two player files among them, while the miscellaneous files had findings
C9_Witness ==
  /\ pc = "done"
  /\ report.written
  /\ FoundByMisc
  /\ \A s \in {"PlayerData", "RegionFile_BlockEntity", "EntityFile_Entity"} :
       \E j \in 1..Len(report.findings_list) : report.findings_list[j].data_source = s
  /\ \E i, j \in 1..Len(report.findings_list) :
       /\ report.findings_list[i].data_source = "PlayerData"
       /\ report.findings_list[j].data_source = "PlayerData"
       /\ report.findings_list[i].origin[2] < report.findings_list[j].origin[2]

Scanning == pc \in {"players", "regions", "entities", "misc", "done"}

\* C10: a scan never runs with a fully empty criteria set: in every started
\* scan the criteria given to the Tag Matcher have at least one of name and
\* value set, filters given as empty strings included; with neither filter
\* given the demo query is used if world directory and output path are at
\* their defaults, and otherwise no scan is started.
C10_NeverEmptyCriteria ==
  /\ Scanning => HasName(search_criteria) \/ HasValue(search_criteria)
  /\ Scanning /\ IsNone(args.name) /\ IsNone(args.value) =>
       /\ args.world_dir = DefaultWorldDir /\ args.output_csv = DefaultOutputCsv
       /\ search_criteria = Criteria(Some("id"), Some(Elytra))
  /\ pc = "usage_error" => IsNone(args.name) /\ IsNone(args.value)

(***************************************************************************)
(* Claims about failures while a file is read                              *)
(***************************************************************************)
\* the findings the Tag Matcher has for the chunk of a cell, none when the
\* cell holds no decodable, non-empty chunk
MatcherFindingsOfCell(file, criteria, c) ==
  IF file.cells[c].kind = "chunk" /\ TagTruthy(file.cells[c].nbt)
  THEN find_nbt_tags_recursive(file.cells[c].nbt, criteria, ChunkCoordStr(c[1], c[2]))
  ELSE <<>>

ReturnedForCell(found, c) == {i \in 1..Len(found) : found[i].cell = c}

\* C11: a cell that is absent or present but corrupt does not stop the
\* remaining cells of the same region file from being decoded and searched:
\* every decodable chunk of an opened file has all its findings in the
\* result, wherever the failing cells lie.
C11_CellFailuresLocal ==
  (pc = "done" /\ call.file.kind = "ok") =>
    \A c \in Grid \X Grid :
      Cardinality(ReturnedForCell(ret, c))
        = Len(MatcherFindingsOfCell(call.file, call.search_criteria, c))

\* the position of a cell in the order of the two loops
CellIndex(c) == CHOOSE k \in 1..Len(CellOrder) : CellOrder[k] = c

\* get_nbt returned a chunk for the cell: the file opened, no earlier cell
\* ended the loops, and the cell holds a chunk
DecodedChunk(file, c) ==
  /\ file.kind = "ok"
  /\ \A k \in 1..(CellIndex(c) - 1) : file.cells[CellOrder[k]].kind # "corrupt"
  /\ file.cells[c].kind = "chunk"

\* the findings returned for a cell, in the order of the result
RECURSIVE ForCell(_, _)
ForCell(found, c) ==
  IF found = <<>> THEN <<>>
  ELSE IF Head(found).cell = c THEN <<Head(found)>> \o ForCell(Tail(found), c)
  ELSE ForCell(Tail(found), c)

\* one for one and in the same order, and nothing but the annotation added
SameFindings(returned, matched, c) ==
  /\ Len(returned) = Len(matched)
  /\ \A i \in 1..Len(matched) :
       /\ returned[i].path = matched[i].path
       /\ returned[i].name = matched[i].name
       /\ returned[i].value = matched[i].value
       /\ returned[i].node = matched[i].node
       /\ returned[i].chunk = ChunkCoordStr(c[1], c[2])

MatcherFindingsOfChunk(file, criteria, c) ==
  find_nbt_tags_recursive(file.cells[c].nbt, criteria, ChunkCoordStr(c[1], c[2]))

NameText(name) == IF IsNone(name) THEN "" ELSE Get(name)

\* the path of the k-th child of parent when parent is reached at path p,
\* one segment added: .name (name alone when p is empty) or [index]
OneSegment(parent, k, p) ==
  IF parent.kind = "Compound"
  THEN IF p = "" THEN NameText(parent.tags[k].name)
       ELSE p \o "." \o NameText(parent.tags[k].name)
  ELSE p \o "[" \o ToString(k - 1) \o "]"

RECURSIVE PathBySegments(_, _, _)
\* the prefix followed by one segment per edge from the root to position a
PathBySegments(tag, p, a) ==
  IF a = <<>> THEN p
  ELSE PathBySegments(tag.tags[Head(a)], OneSegment(tag, Head(a), p), Tail(a))

\* C13: every visited child extends its parent's path by exactly one
\* segment, .childName (childName alone when the path is empty) under a
\* Compound and [i] under a List, so the path of every finding is the prefix
\* followed by one segment per edge from the root to the matched node.
C13_OneSegmentPerEdge ==
  pc = "done" =>
    \A i \in 1..Len(ret) :
      ret[i].path = PathBySegments(call.nbt_tag, call.current_path, ret[i].node)

\* the tag at the position is an element of a List: in the NBT data it has no
\* name, whatever the library puts in its name attribute
IsListElement(tag, a) ==
  a # <<>> /\ NodeAt(tag, SubSeq(a, 1, Len(a) - 1)).kind = "List"

\* C14: when the criteria specify a name, a node is reported only if its own
\* name equals the criteria name exactly; a node with no name (an element of
\* a List) is never matched by a criteria name that is a string, the empty
\* string included.
C14_ExactNameOnly ==
  (pc = "done" /\ HasName(call.search_criteria)) =>
    \A i \in 1..Len(ret) :
      /\ NodeAt(call.nbt_tag, ret[i].node).name = call.search_criteria.name
      /\ ~IsListElement(call.nbt_tag, ret[i].node)

(***************************************************************************)
(* Claims about where the block-entity list is looked up                   *)
(***************************************************************************)
\* the compound has a non-empty List child of that name
HasNonEmptyList(tag, name) ==
  /\ tag.kind = "Compound"
  /\ HasChild(tag, name)
  /\ Child(tag, name).kind = "List"
  /\ Child(tag, name).tags # <<>>

\* the annotation that element be_idx (from 0) of one list gives
CoordsAt(list, be_idx) ==
  IF be_idx < Len(list.tags) /\ HasXYZ(list.tags[be_idx + 1])
  THEN FormatBlockCoords(list.tags[be_idx + 1])
  ELSE "N/A"

LevelHasList(chunk_nbt, name) ==
  HasChild(chunk_nbt, "Level") /\ HasNonEmptyList(Child(chunk_nbt, "Level"), name)

\* the rule of the claim applied to one returned finding whose path names
\* a list and an index (match, <<>> when the path names none)
RootFirst(chunk_nbt, match, block_coords) ==
  IF match = <<>> THEN TRUE
  ELSE IF HasNonEmptyList(chunk_nbt, match[1])
  THEN block_coords = CoordsAt(Child(chunk_nbt, match[1]), match[2])
  ELSE (~HasChild(chunk_nbt, match[1]) /\ LevelHasList(chunk_nbt, match[1])) =>
         block_coords = CoordsAt(Child(Child(chunk_nbt, "Level"), match[1]), match[2])

\* C15: the block-entity list named in the finding's path is looked up at
\* the chunk root first and under Level only if the root has no such
\* non-empty list; when both places hold the list the one at the root is
\* used, and an index beyond the root list is not looked up in the other.
C15_RootFirstWins ==
  pc = "done" =>
    \A i \in 1..Len(ret) :
      RootFirst(call.file.cells[ret[i].cell].nbt, FirstMatch(ret[i].path),
                ret[i].block_coords)

\* both places hold the list, the finding lies in the one under Level, and
\* its annotation is what the root list gives, which differs from what the
\* list under Level gives
C15_Witness ==
  /\ pc = "done"
  /\ \E i \in 1..Len(ret) :
       LET chunk_nbt == call.file.cells[ret[i].cell].nbt
           m == FirstMatch(ret[i].path)
       IN /\ m # <<>>
          /\ HasNonEmptyList(chunk_nbt, m[1])
          /\ LevelHasList(chunk_nbt, m[1])
          /\ ret[i].node[1] = 2
          /\ ret[i].block_coords = CoordsAt(Child(chunk_nbt, m[1]), m[2])
          /\ ret[i].block_coords # CoordsAt(Child(Child(chunk_nbt, "Level"), m[1]), m[2])

(***************************************************************************)
(* C16: the raw-sector fallback                                            *)
(***************************************************************************)
\* the sector root has a child named Entities that is a list, empty or not
HasEntitiesList(sector_nbt) ==
  /\ HasChild(sector_nbt, "Entities")
  /\ Child(sector_nbt, "Entities").kind = "List"

\* the finding comes from the raw-sector search of its sector
FromRawSector(f) ==
  /\ f.entity = -1
  /\ f.entity_type = "RawSectorSearch"
  /\ f.coords = "N/A"
  /\ StartsWith(f.path, f.sector)

\* the finding comes from the search of one entity compound of the list
FromEntityOfList(f) ==
  /\ f.entity >= 0
  /\ StartsWith(f.path, f.sector \o ".Entities[" \o ToString(f.entity) \o "]")

\* C16: for a decoded sector whose root is a compound, a finding comes from
\* the raw-sector search (prefix Sector[x,z], type RawSectorSearch,
\* coordinates N/A) if and only if the root has no child named Entities or
\* that child is not a list; when an Entities list is present, empty or not,
\* every finding of the sector comes from the search of one entity compound
\* with prefix Sector[x,z].Entities[i].
C16_FallbackIffNoEntitiesList ==
  pc = "done" =>
    \A i \in 1..Len(ret) :
      LET sector_nbt == call.file.cells[ret[i].cell].nbt
      IN sector_nbt.kind = "Compound" =>
           IF HasEntitiesList(sector_nbt)
           THEN FromEntityOfList(ret[i]) /\ ~FromRawSector(ret[i])
           ELSE FromRawSector(ret[i])

(***************************************************************************)
(* C17: paths as addresses                                                 *)
(***************************************************************************)
RECURSIVE UniqueChildNames(_)
\* no compound of the tree has two children of the same name
UniqueChildNames(tag) ==
  /\ tag.kind = "Compound" => DistinctNames(tag.tags)
  /\ \A k \in 1..Len(tag.tags) : UniqueChildNames(tag.tags[k])

\* C17: within the result of one call on a tree whose compound child names
\* are unique, two findings for two different nodes never carry the same
\* path string, nodes with an empty or absent name included.
C17_PathsDistinguishNodes ==
  (pc = "done" /\ UniqueChildNames(call.nbt_tag)) =>
    \A i, j \in 1..Len(ret) :
      ret[i].node # ret[j].node => ret[i].path # ret[j].path

====
